---- MODULE Spec2Model ----
(***************************************************************************)
(* PowercheckDashboard (src/streamlit_app.py): the outage dashboard's      *)
(* component state, its asynchronous fetchData handler, the effect that    *)
(* mounts the 300000 ms polling interval, the refresh button and the       *)
(* incident selection.                                                     *)
(*                                                                         *)
(* One action is one JavaScript task: an event handler or the resumption   *)
(* of an async function after an await, run to its next await or its end.  *)
(* State updates made inside one task become visible together.             *)
(*                                                                         *)
(* Time is discrete.  PollInterval and MockDelay are the 300000 ms and the *)
(* 800 ms of the source, scaled to small numbers of time units that keep   *)
(* MockDelay < PollInterval.  Coordinates are hundredths of a degree.      *)
(* Display-only fields of an incident (status, startTime, estRestoration,  *)
(* message) are left out of the incident record.                           *)
(***************************************************************************)
EXTENDS Integers, Sequences, FiniteSets, TLC

\* ------------------------------------------------------------------ bounds
\* time explored beyond the end of the first polled fetch cycle
ExtraTime == 0
\* period of the polling interval, in time units (300000 ms)
PollInterval == 3
\* delay of the demo branch, in time units (800 ms)
MockDelay == 1
\* last instant of the explored horizon
MaxTime == PollInterval + MockDelay + ExtraTime

\* how many entries of the locations table are used
NumLocations == 1
\* how many entries of incidentTypes are used
NumTypes == 3
\* smallest number of incidents generateMockFaults produces (5 in the source)
CountBase == 1
\* number of different counts generateMockFaults can produce (8 in the source)
CountSpread == 2
\* number of different customersAffected values (200 in the source)
CustomerSpread == 1

\* ------------------------------------------------------------- characters
UpperCase ==
  <<"A","B","C","D","E","F","G","H","I","J","K","L","M",
    "N","O","P","Q","R","S","T","U","V","W","X","Y","Z">>

LowerCase ==
  <<"a","b","c","d","e","f","g","h","i","j","k","l","m",
    "n","o","p","q","r","s","t","u","v","w","x","y","z">>

\* the characters of the incident type strings of generateMockFaults
Chars(s) ==
  CASE s = "Unplanned Outage" ->
         <<"U","n","p","l","a","n","n","e","d"," ","O","u","t","a","g","e">>
    [] s = "Planned Work" ->
         <<"P","l","a","n","n","e","d"," ","W","o","r","k">>
    [] s = "Equipment Fault" ->
         <<"E","q","u","i","p","m","e","n","t"," ","F","a","u","l","t">>
    [] s = "Storm Damage" ->
         <<"S","t","o","r","m"," ","D","a","m","a","g","e">>
    [] OTHER -> <<>>

ToLowerChar(ch) ==
  IF \E k \in 1..26 : UpperCase[k] = ch
    THEN LowerCase[CHOOSE k \in 1..26 : UpperCase[k] = ch]
    ELSE ch

ToLower(cs) == [k \in 1..Len(cs) |-> ToLowerChar(cs[k])]

\* cs contains the character sequence sub
Contains(cs, sub) ==
  \E k \in 1..(Len(cs) - Len(sub) + 1) : SubSeq(cs, k, k + Len(sub) - 1) = sub

\* -------------------------------------------------------- generateMockFaults
incidentTypes ==
  <<"Unplanned Outage", "Planned Work", "Equipment Fault", "Storm Damage">>

locations ==
  << [town |-> "Belfast (South)",   postcode |-> "BT9",  lat |-> 5457, lng |-> -596],
     [town |-> "Bangor",            postcode |-> "BT19", lat |-> 5466, lng |-> -567],
     [town |-> "Derry/Londonderry", postcode |-> "BT48", lat |-> 5500, lng |-> -734],
     [town |-> "Omagh",             postcode |-> "BT78", lat |-> 5460, lng |-> -730],
     [town |-> "Newry",             postcode |-> "BT34", lat |-> 5417, lng |-> -634],
     [town |-> "Lisburn",           postcode |-> "BT27", lat |-> 5451, lng |-> -604],
     [town |-> "Ballymena",         postcode |-> "BT42", lat |-> 5486, lng |-> -628],
     [town |-> "Enniskillen",       postcode |-> "BT74", lat |-> 5434, lng |-> -764],
     [town |-> "Coleraine",         postcode |-> "BT51", lat |-> 5513, lng |-> -666],
     [town |-> "Dungannon",         postcode |-> "BT70", lat |-> 5450, lng |-> -677],
     [town |-> "Millisle",          postcode |-> "BT22", lat |-> 5461, lng |-> -553],
     [town |-> "Antrim",            postcode |-> "BT41", lat |-> 5471, lng |-> -622],
     [town |-> "Portadown",         postcode |-> "BT62", lat |-> 5442, lng |-> -644] >>

\* one iteration's Math.random() results: a location, a type, a customer count
RandomDraw ==
  [loc : 1..NumLocations, type : 1..NumTypes, customers : 10..(10 + CustomerSpread - 1)]

\* the Math.random() results of one call: count, then one draw per incident
RandomDraws ==
  UNION { [1..n -> RandomDraw] : n \in CountBase..(CountBase + CountSpread - 1) }

\* CoordinatesOf with the longitude forgotten
CoordinatesOfLatOnly(loc) == <<loc.lat>>

\* the coordinates array [loc.lat, loc.lng] of a pushed incident
CoordinatesOf(loc) == <<loc.lat, loc.lng>>

\* the incident pushed by iteration i (i counts from 0 in the source); cycle
\* is the identity of the array the call builds (the fetchData call it is for)
MockIncident(i, d, cycle) ==
  [ id               |-> 10000 + i,
    type             |-> incidentTypes[d.type],
    location         |-> locations[d.loc].town,
    postcode         |-> locations[d.loc].postcode,
    coordinates      |-> CoordinatesOf(locations[d.loc]),
    customersAffected |-> d.customers,
    cycle            |-> cycle ]

generateMockFaults(draws, cycle) ==
  [ shape |-> "list",
    items |-> [k \in 1..Len(draws) |-> MockIncident(k - 1, draws[k], cycle)],
    cycle |-> cycle ]

\* ------------------------------------------------------------ the live feed
\* JSON documents the live endpoint may answer with: a flat list of incident
\* objects (with or without coordinates), a dictionary wrapping such a list
\* under "incidents", or a value that is neither; cycle is the identity of the
\* parsed value (the fetchData call that parsed it)
LiveIncident(i, hasCoordinates, cycle) ==
  [ id               |-> 20000 + i,
    type             |-> "Equipment Fault",
    location         |-> "Bangor",
    postcode         |-> "BT19",
    coordinates      |-> IF hasCoordinates THEN <<5466, -567>> ELSE <<>>,
    customersAffected |-> 10,
    cycle            |-> cycle ]

LivePayloads(cycle) ==
  { [shape |-> "list",   items |-> <<>>, cycle |-> cycle],
    [shape |-> "list",   items |-> <<LiveIncident(0, TRUE, cycle)>>, cycle |-> cycle],
    [shape |-> "list",   items |-> <<LiveIncident(0, FALSE, cycle)>>, cycle |-> cycle],
    [shape |-> "dict",   items |-> <<LiveIncident(0, TRUE, cycle)>>, cycle |-> cycle],
    [shape |-> "scalar", items |-> <<>>, cycle |-> cycle] }

\* -------------------------------------------------------------------- state
VARIABLES
  faults,         \* useState([]): the snapshot
  loading,        \* useState(true)
  lastUpdated,    \* useState(null): -1 is null, otherwise the time of the write
  selectedFault,  \* useState(null): <<>> is null, otherwise <<incident>>
  dataSource,     \* useState('demo')
  mounted,        \* the mount effect has run
  nextTick,       \* when the interval of the current effect fires next
  pending,        \* fetchData calls suspended at an await
  nextCall,       \* number of fetchData calls made so far
  now,            \* the clock
  triggers,       \* history: mount, interval ticks and refresh clicks so far
  requests,       \* history: requests issued to LIVE_API_URL
  generations,    \* history: calls of generateMockFaults
  faultsWrites,   \* history: calls of setFaults
  updatedWrites   \* history: calls of setLastUpdated

vars ==
  << faults, loading, lastUpdated, selectedFault, dataSource, mounted, nextTick,
     pending, nextCall, now, triggers, requests, generations, faultsWrites,
     updatedWrites >>

InitialFaults == [shape |-> "list", items |-> <<>>, cycle |-> -1]

\* the component starting on the live feed
InitialDataSourceLive == "live"

InitialDataSource == "demo"

Init ==
  /\ faults = InitialFaults
  /\ loading = TRUE
  /\ lastUpdated = -1
  /\ selectedFault = <<>>
  /\ dataSource = InitialDataSource
  /\ mounted = FALSE
  /\ nextTick = -1
  /\ pending = {}
  /\ nextCall = 0
  /\ now = 0
  /\ triggers = 0
  /\ requests = 0
  /\ generations = 0
  /\ faultsWrites = 0
  /\ updatedWrites = 0

\* the horizon: a fetchData call is only started when its 800 ms timer ends
\* no later than MaxTime
CanStart == now + MockDelay <= MaxTime

\* fetchData up to its first await: setLoading(true), then either fetch(...)
\* or the 800 ms timer, chosen by the dataSource of the closure
CallOf(id, ds) ==
  [ id    |-> id,
    ds    |-> ds,
    stage |-> IF ds = "live" THEN "fetch" ELSE "timer",
    due   |-> IF ds = "live" THEN -1 ELSE now + MockDelay ]

StartFetch ==
  /\ loading' = TRUE
  /\ pending' = pending \cup {CallOf(nextCall, dataSource)}
  /\ nextCall' = nextCall + 1
  /\ requests' = IF dataSource = "live" THEN requests + 1 ELSE requests

\* useEffect(..., [dataSource]) on mount: fetchData(), setInterval(fetchData, 300000)
Mount ==
  /\ ~mounted
  /\ CanStart
  /\ mounted' = TRUE
  /\ StartFetch
  /\ nextTick' = now + PollInterval
  /\ triggers' = triggers + 1
  /\ UNCHANGED << faults, lastUpdated, selectedFault, dataSource, now,
                  generations, faultsWrites, updatedWrites >>

\* the interval fires: fetchData()
TimerTick ==
  /\ mounted
  /\ nextTick = now
  /\ CanStart
  /\ StartFetch
  /\ nextTick' = now + PollInterval
  /\ triggers' = triggers + 1
  /\ UNCHANGED << faults, lastUpdated, selectedFault, dataSource, mounted, now,
                  generations, faultsWrites, updatedWrites >>

\* <button onClick={fetchData} disabled={loading}>
RefreshClick ==
  /\ mounted
  /\ ~loading
  /\ CanStart
  /\ StartFetch
  /\ triggers' = triggers + 1
  /\ UNCHANGED << faults, lastUpdated, selectedFault, dataSource, mounted,
                  nextTick, now, generations, faultsWrites, updatedWrites >>

\* DemoBranch appending the new incidents to the previous snapshot
DemoBranchMerge(c, draws) ==
  /\ faults' = [ shape |-> "list",
                 items |-> faults.items \o generateMockFaults(draws, c.id).items,
                 cycle |-> c.id ]
  /\ lastUpdated' = now
  /\ loading' = FALSE
  /\ pending' = pending \ {c}
  /\ generations' = generations + 1
  /\ faultsWrites' = faultsWrites + 1
  /\ updatedWrites' = updatedWrites + 1
  /\ UNCHANGED << selectedFault, dataSource, mounted, nextTick, nextCall, now,
                  triggers, requests >>

\* DemoBranch behind a cache: a snapshot younger than the polling interval is kept
DemoBranchCached(c, draws) ==
  /\ IF lastUpdated >= 0 /\ now - lastUpdated < PollInterval
       THEN UNCHANGED << faults, lastUpdated, generations, faultsWrites,
                         updatedWrites >>
       ELSE /\ faults' = generateMockFaults(draws, c.id)
            /\ lastUpdated' = now
            /\ generations' = generations + 1
            /\ faultsWrites' = faultsWrites + 1
            /\ updatedWrites' = updatedWrites + 1
  /\ loading' = FALSE
  /\ pending' = pending \ {c}
  /\ UNCHANGED << selectedFault, dataSource, mounted, nextTick, nextCall, now,
                  triggers, requests >>

\* DemoBranch trying a second time: it generates and writes twice
DemoBranchRetry(c, draws) ==
  /\ faults' = generateMockFaults(draws, c.id)
  /\ lastUpdated' = now
  /\ loading' = FALSE
  /\ pending' = pending \ {c}
  /\ generations' = generations + 2
  /\ faultsWrites' = faultsWrites + 2
  /\ updatedWrites' = updatedWrites + 2
  /\ UNCHANGED << selectedFault, dataSource, mounted, nextTick, nextCall, now,
                  triggers, requests >>

\* the try block's demo branch after its await, then finally:
\* setFaults(generateMockFaults()); setLastUpdated(new Date()); setLoading(false)
DemoBranch(c, draws) ==
  /\ faults' = generateMockFaults(draws, c.id)
  /\ lastUpdated' = now
  /\ loading' = FALSE
  /\ pending' = pending \ {c}
  /\ generations' = generations + 1
  /\ faultsWrites' = faultsWrites + 1
  /\ updatedWrites' = updatedWrites + 1
  /\ UNCHANGED << selectedFault, dataSource, mounted, nextTick, nextCall, now,
                  triggers, requests >>

\* the live branch after `await fetch(LIVE_API_URL)` answered ok: it suspends
\* again at `await response.json()`
AwaitJson(c) ==
  /\ pending' = (pending \ {c}) \cup {[c EXCEPT !.stage = "json"]}
  /\ UNCHANGED << faults, loading, lastUpdated, selectedFault, dataSource,
                  mounted, nextTick, nextCall, now, triggers, requests,
                  generations, faultsWrites, updatedWrites >>

\* the live branch after `await response.json()` answered data, then finally:
\* setFaults(data); setLastUpdated(new Date()); setLoading(false)
LiveBranch(c, data) ==
  /\ faults' = data
  /\ lastUpdated' = now
  /\ loading' = FALSE
  /\ pending' = pending \ {c}
  /\ faultsWrites' = faultsWrites + 1
  /\ updatedWrites' = updatedWrites + 1
  /\ UNCHANGED << selectedFault, dataSource, mounted, nextTick, nextCall, now,
                  triggers, requests, generations >>

\* catch (err), then finally: setDataSource('demo');
\* setFaults(generateMockFaults()); setLastUpdated(new Date()); setLoading(false).
\* When this changes dataSource, the effect of [dataSource] runs again after
\* the render: clearInterval, fetchData(), setInterval(fetchData, 300000)
CatchHandler(c, draws) ==
  /\ dataSource' = "demo"
  /\ faults' = generateMockFaults(draws, c.id)
  /\ lastUpdated' = now
  /\ generations' = generations + 1
  /\ faultsWrites' = faultsWrites + 1
  /\ updatedWrites' = updatedWrites + 1
  /\ IF dataSource # "demo"
       THEN /\ loading' = TRUE
            /\ pending' = (pending \ {c}) \cup {CallOf(nextCall, "demo")}
            /\ nextCall' = nextCall + 1
            /\ nextTick' = now + PollInterval
       ELSE /\ loading' = FALSE
            /\ pending' = pending \ {c}
            /\ UNCHANGED << nextCall, nextTick >>
  /\ UNCHANGED << selectedFault, mounted, now, triggers, requests >>

\* what `await fetch(...)` can settle to, and what `await response.json()` can
FetchOutcomes == {"reject", "notok", "ok"}

\* the promise a suspended fetchData call awaits settles and the call runs on,
\* to its next await or through finally
Resume(c) ==
  /\ c \in pending
  /\ IF c.stage = "timer"
       THEN /\ c.due <= now
            /\ \E draws \in RandomDraws : DemoBranch(c, draws)
       ELSE IF c.stage = "fetch"
         THEN \E o \in FetchOutcomes :
                IF o = "ok"
                  THEN AwaitJson(c)
                  ELSE \E draws \in RandomDraws : CatchHandler(c, draws)
         ELSE \E parsed \in BOOLEAN :
                IF parsed
                  THEN \E data \in LivePayloads(c.id) : LiveBranch(c, data)
                  ELSE \E draws \in RandomDraws : CatchHandler(c, draws)

ResumeAny == \E c \in pending : Resume(c)

\* onClick={() => setSelectedFault(fault)} of the list, onSelect(fault) of a marker
Select ==
  /\ faults.shape = "list"
  /\ \E k \in 1..Len(faults.items) : selectedFault' = <<faults.items[k]>>
  /\ selectedFault' # selectedFault
  /\ UNCHANGED << faults, loading, lastUpdated, dataSource, mounted, nextTick,
                  pending, nextCall, now, triggers, requests, generations,
                  faultsWrites, updatedWrites >>

\* onClick={() => setSelectedFault(null)}
ClearSelection ==
  /\ selectedFault # <<>>
  /\ selectedFault' = <<>>
  /\ UNCHANGED << faults, loading, lastUpdated, dataSource, mounted, nextTick,
                  pending, nextCall, now, triggers, requests, generations,
                  faultsWrites, updatedWrites >>

\* a timer that is due runs before the clock moves on
TimerDue ==
  \/ nextTick = now /\ CanStart
  \/ \E c \in pending : c.stage = "timer" /\ c.due <= now

Pass ==
  /\ mounted
  /\ now < MaxTime
  /\ ~TimerDue
  /\ now' = now + 1
  /\ UNCHANGED << faults, loading, lastUpdated, selectedFault, dataSource,
                  mounted, nextTick, pending, nextCall, triggers, requests,
                  generations, faultsWrites, updatedWrites >>

Next ==
  \/ Mount
  \/ TimerTick
  \/ RefreshClick
  \/ ResumeAny
  \/ Select
  \/ ClearSelection
  \/ Pass

Spec == Init /\ [][Next]_vars

\* ------------------------------------------------------------------ render
\* const isUnplanned = fault.type === 'Unplanned Outage' (marker colour, list
\* dot and stats.critical all use this test)
isUnplanned(fault) == fault.type = "Unplanned Outage"

RECURSIVE SumCustomers(_)
SumCustomers(items) ==
  IF items = <<>> THEN 0
  ELSE Head(items).customersAffected + SumCustomers(Tail(items))

\* useMemo(() => ({ total, customers, critical }), [faults])
stats(f) ==
  [ total     |-> Len(f.items),
    customers |-> SumCustomers(f.items),
    critical  |-> Cardinality({k \in 1..Len(f.items) : isUnplanned(f.items[k])}) ]

\* ------------------------------------------------------------------ helpers
PendingIds == {c.id : c \in pending}

\* the step ends the fetchData call c (it ran through finally)
Finishes(c) == c \in pending /\ c.id \notin {d.id : d \in pending'}

\* everything a fetchData call can hand to setFaults
CycleResults(cycle) ==
  {generateMockFaults(d, cycle) : d \in RandomDraws} \cup LivePayloads(cycle)

\* a latitude/longitude pair of finite numbers, in hundredths of a degree
ValidCoordinates(c) ==
  /\ Len(c) = 2
  /\ c[1] \in -9000..9000
  /\ c[2] \in -18000..18000

\* the keyword set of the severity classification
Keywords ==
  { <<"u","n","p","l","a","n","n","e","d">>, <<"f","a","u","l","t">>, <<"h","v">> }

\* kind case-insensitively contains one of the keywords
IsUrgentKind(kind) == \E w \in Keywords : Contains(ToLower(Chars(kind)), w)

\* ------------------------------------------------------------------- claims
\* C1: in every reachable state every incident of the snapshot faults has a
\* valid, numeric, finite latitude and longitude; no record without
\* coordinates is in the snapshot.
C1_ValidCoordinates ==
  /\ faults.shape = "list"
  /\ \A k \in 1..Len(faults.items) : ValidCoordinates(faults.items[k].coordinates)

\* a fetch cycle has written a snapshot that holds incidents
C1_Witness ==
  /\ faultsWrites > 0
  /\ Len(faults.items) > 0
  /\ \A k \in 1..Len(faults.items) : ValidCoordinates(faults.items[k].coordinates)

\* C3 (as claimed): fetch cycles are serialized, two fetchData calls are never
\* in flight at once.
C3_Serialized == Cardinality(pending) <= 1

\* C8 (as claimed): every incident of the snapshot whose type contains
\* "unplanned", "fault" or "hv" (ignoring case) is classified urgent by the
\* dashboard, every other one informational, and stats.critical counts the
\* urgent ones.
C8_KeywordSeverity ==
  /\ \A k \in 1..Len(faults.items) :
       IsUrgentKind(faults.items[k].type) <=> isUnplanned(faults.items[k])
  /\ stats(faults).critical =
       Cardinality({k \in 1..Len(faults.items) : IsUrgentKind(faults.items[k].type)})

\* C10: dataSource is 'demo' in every reachable state; no fetchData call takes
\* the live branch and no request goes to LIVE_API_URL.
C10_AlwaysDemo ==
  /\ dataSource = "demo"
  /\ \A c \in pending : c.ds = "demo" /\ c.stage = "timer"
  /\ requests = 0

\* the interval has ticked, the button was clicked, an incident is selected and
\* several fetch cycles have completed
C10_Witness ==
  /\ dataSource = "demo"
  /\ triggers >= 3
  /\ nextTick > PollInterval
  /\ generations >= 2
  /\ selectedFault # <<>>

\* C5: faults is the initial empty list or the complete result of one single
\* fetchData call; only a fetchData call that ends changes faults, and every
\* write of faults comes with a write of lastUpdated in the same step.
C5_WholesaleReplace ==
  /\ [](\/ faults = InitialFaults /\ faultsWrites = 0
        \/ /\ faults.cycle \in (0..(nextCall - 1)) \ PendingIds
           /\ faults \in CycleResults(faults.cycle))
  /\ [](faultsWrites = updatedWrites)
  /\ [][faults' # faults =>
          /\ \E c \in pending : Finishes(c) /\ faults' \in CycleResults(c.id)
          /\ updatedWrites' = updatedWrites + 1
          /\ lastUpdated' = now]_vars

\* the snapshot of one fetch cycle has been replaced by that of a later one
C5_Witness ==
  /\ faultsWrites >= 2
  /\ faults.cycle >= 1
  /\ \A k \in 1..Len(faults.items) : faults.items[k].cycle = faults.cycle
  /\ lastUpdated = now

\* the time-to-live of the claimed cache: the polling period
TimeToLive == PollInterval

C7_NoRetry ==
  /\ nextCall = triggers
  /\ generations + requests + Cardinality(pending) = nextCall
  /\ faultsWrites + Cardinality(pending) = nextCall

\* mount, a tick and a click have each had their one attempt
C7_Witness ==
  /\ triggers >= 3
  /\ nextTick > PollInterval
  /\ pending = {}
  /\ generations = triggers
  /\ faultsWrites = triggers

\* C11 (as claimed): once the mount effect has run, loading is true exactly
\* when at least one fetchData call has started and not yet run through its
\* finally block; so the refresh button (disabled while loading) is never
\* enabled while a fetch is in flight.
C11_LoadingTracksInFlight == mounted => (loading <=> pending # {})

\* the incidents a and b show the same data (whichever arrays they belong to)
SameData(a, b) ==
  /\ a.id = b.id
  /\ a.type = b.type
  /\ a.location = b.location
  /\ a.postcode = b.postcode
  /\ a.coordinates = b.coordinates
  /\ a.customersAffected = b.customersAffected

\* C12 (as claimed): selectedFault is null or an incident that is an element
\* of the current snapshot faults, also after a fetch cycle has replaced
\* faults.  Stated in its weakest reading: the snapshot holds an incident with
\* the selected incident's data.
C12_SelectionInSnapshot ==
  \/ selectedFault = <<>>
  \/ \E k \in 1..Len(faults.items) : SameData(faults.items[k], selectedFault[1])

====
